---- MODULE Spec2Model ----
(***************************************************************************)
(* Model of gophen (src/gophen.go): the hyphenation dictionary loader      *)
(* NewHyphDict, the exception-clause parser AlternativeParser and the      *)
(* position engine HyphDict.Positions with its per-dictionary cache.       *)
(*                                                                         *)
(* A Go string is a sequence of bytes; bytes are the integers 0..255.      *)
(* A character outside ASCII takes two bytes (UTF-8), e.g. U+00E9 is       *)
(* <<195, 169>>.                                                           *)
(***************************************************************************)
EXTENDS Integers, Sequences, FiniteSets, TLC

(* ------------------------------------------------------------------ *)
(* Bounds of the model                                                 *)
(* ------------------------------------------------------------------ *)
MaxLines == 2

(* ------------------------------------------------------------------ *)
(* Characters and strings                                              *)
(* ------------------------------------------------------------------ *)
\* printable ASCII, 32..126, in code order ("dq", "lp", "rp", "star", "bs"
\* and "bq" name the double quote, the parentheses, the asterisk, the backslash
\* and the backquote)
Ascii ==
  << " ", "!", "dq", "#", "$", "%", "&", "'", "lp", "rp", "star", "+", ",", "-", ".", "/",
     "0", "1", "2", "3", "4", "5", "6", "7", "8", "9", ":", ";", "<", "=", ">", "?",
     "@", "A", "B", "C", "D", "E", "F", "G", "H", "I", "J", "K", "L", "M", "N", "O",
     "P", "Q", "R", "S", "T", "U", "V", "W", "X", "Y", "Z", "[", "bs", "]", "^", "_",
     "bq", "a", "b", "c", "d", "e", "f", "g", "h", "i", "j", "k", "l", "m", "n", "o",
     "p", "q", "r", "s", "t", "u", "v", "w", "x", "y", "z", "{", "|", "}", "~" >>

\* the byte of an ASCII character; "C3" and "A9" are the lead byte and the
\* continuation byte of U+00E9 in UTF-8
Ord(c) ==
  IF c = "C3" THEN 195
  ELSE IF c = "A9" THEN 169
  ELSE 31 + (CHOOSE n \in 1..Len(Ascii) : Ascii[n] = c)

\* a string literal, written one character per element
Str(cs) == [n \in 1..Len(cs) |-> Ord(cs[n])]

Max(S) == CHOOSE x \in S : \A y \in S : y <= x
Min2(a, b) == IF a < b THEN a ELSE b

IsDigit(b) == b >= 48 /\ b <= 57
IsSpace(b) == b \in {9, 10, 11, 12, 13, 32}
IsHex(b) == IsDigit(b) \/ (b >= 97 /\ b <= 102) \/ (b >= 65 /\ b <= 70)
HexVal(b) == IF IsDigit(b) THEN b - 48 ELSE IF b >= 97 THEN b - 87 ELSE b - 55

\* s[from:] with a 0-based byte offset
Tail0(s, from) == SubSeq(s, from + 1, Len(s))
\* s[from:to] with 0-based byte offsets
Slice(s, from, to) == SubSeq(s, from + 1, to)

HasPrefix(s, p) == Len(s) >= Len(p) /\ SubSeq(s, 1, Len(p)) = p
Contains(s, b) == \E n \in 1..Len(s) : s[n] = b

\* width in bytes of the character that starts at 1-based position p:
\* a two-byte lead followed by a continuation byte is one character, any
\* other byte (ASCII or invalid) counts as one character of width 1
IsCont(s, p) == p <= Len(s) /\ s[p] >= 128 /\ s[p] <= 191

RuneWidth(s, p) ==
  IF s[p] >= 194 /\ s[p] <= 223 /\ IsCont(s, p + 1) THEN 2
  ELSE IF s[p] >= 225 /\ s[p] <= 239 /\ IsCont(s, p + 1) /\ IsCont(s, p + 2) THEN 3
  ELSE 1

\* string(rune(cp)) for cp < 65536
EncodeRune(cp) ==
  IF cp < 128 THEN << cp >>
  ELSE IF cp < 2048 THEN << 192 + (cp \div 64), 128 + (cp % 64) >>
  ELSE << 224 + (cp \div 4096), 128 + ((cp \div 64) % 64), 128 + (cp % 64) >>

RECURSIVE RuneCountFrom(_, _)
RuneCountFrom(s, p) ==
  IF p > Len(s) THEN 0 ELSE 1 + RuneCountFrom(s, p + RuneWidth(s, p))

\* utf8.RuneCountInString
RuneCountInString(s) == RuneCountFrom(s, 1)

\* unicode.ToLower on ASCII, Latin-1 and basic Cyrillic code points
LowerRune(cp) ==
  IF cp >= 65 /\ cp <= 90 THEN cp + 32
  ELSE IF cp >= 192 /\ cp <= 222 /\ cp # 215 THEN cp + 32
  ELSE IF cp >= 1040 /\ cp <= 1071 THEN cp + 32
  ELSE cp

RECURSIVE ToLowerFrom(_, _)
ToLowerFrom(s, p) ==
  IF p > Len(s) THEN << >>
  ELSE IF RuneWidth(s, p) = 2
       THEN EncodeRune(LowerRune((s[p] - 192) * 64 + (s[p + 1] - 128)))
              \o ToLowerFrom(s, p + 2)
       ELSE IF RuneWidth(s, p) = 3
       THEN SubSeq(s, p, p + 2) \o ToLowerFrom(s, p + 3)
       ELSE << LowerRune(s[p]) >> \o ToLowerFrom(s, p + 1)

\* strings.ToLower (valid UTF-8 input)
ToLower(s) == ToLowerFrom(s, 1)

RECURSIVE TrimLeft(_)
TrimLeft(s) == IF s # << >> /\ IsSpace(s[1]) THEN TrimLeft(Tail(s)) ELSE s
RECURSIVE TrimRight(_)
TrimRight(s) ==
  IF s # << >> /\ IsSpace(s[Len(s)]) THEN TrimRight(SubSeq(s, 1, Len(s) - 1)) ELSE s

\* strings.TrimSpace
TrimSpace(s) == TrimRight(TrimLeft(s))

\* 0-based offset of the first byte b in s, or Len(s) when there is none
RECURSIVE IndexByte(_, _, _)
IndexByte(s, b, from) ==
  IF from >= Len(s) THEN Len(s)
  ELSE IF s[from + 1] = b THEN from ELSE IndexByte(s, b, from + 1)

\* strings.Split(s, sep) for a one-byte separator
RECURSIVE Split(_, _)
Split(s, sep) ==
  LET at == IndexByte(s, sep, 0) IN
    IF at = Len(s) THEN << s >>
    ELSE << Slice(s, 0, at) >> \o Split(Tail0(s, at + 1), sep)

\* strings.SplitN(s, sep, 2) for a one-byte separator
SplitN2(s, sep) ==
  LET at == IndexByte(s, sep, 0) IN
    IF at = Len(s) THEN << s >> ELSE << Slice(s, 0, at), Tail0(s, at + 1) >>

RECURSIVE Join(_)
Join(ss) == IF ss = << >> THEN << >> ELSE Head(ss) \o Join(Tail(ss))

RECURSIVE JoinLines(_)
JoinLines(ls) ==
  IF Len(ls) = 1 THEN ls[1] ELSE ls[1] \o << 10 >> \o JoinLines(Tail(ls))

RECURSIVE DecimalOf(_, _)
DecimalOf(s, acc) ==
  IF s = << >> THEN acc ELSE DecimalOf(Tail(s), acc * 10 + (s[1] - 48))

\* strconv.Atoi with the error dropped: 0 unless s is an optionally signed
\* run of decimal digits
atoi(s) ==
  LET signed == s # << >> /\ s[1] \in {43, 45}
      body == IF signed THEN Tail(s) ELSE s
  IN IF body = << >> \/ \E n \in 1..Len(body) : ~IsDigit(body[n]) THEN 0
     ELSE IF signed /\ s[1] = 45 THEN 0 - DecimalOf(body, 0)
     ELSE DecimalOf(body, 0)

RECURSIVE ItoaNat(_)
ItoaNat(n) == IF n < 10 THEN << 48 + n >> ELSE ItoaNat(n \div 10) \o << 48 + (n % 10) >>

\* strconv.Itoa
Itoa(n) == IF n < 0 THEN << 45 >> \o ItoaNat(0 - n) ELSE ItoaNat(n)

(* ------------------------------------------------------------------ *)
(* Weights: an int, or a hyphDataInt when data is not empty            *)
(* ------------------------------------------------------------------ *)
hyphDataInt(value, data) == [value |-> value, data |-> data]
PlainInt(value) == [value |-> value, data |-> << >>]
IsInt(v) == v.data = << >>

(* ------------------------------------------------------------------ *)
(* AlternativeParser                                                   *)
(* ------------------------------------------------------------------ *)
NoParser == [ok |-> FALSE, change |-> << >>, index |-> 0, cut |-> 0]

\* ok is FALSE when parts[1] or parts[2] is out of range (the call panics)
newAlternativeParser(pattern, alternative) ==
  LET parts == Split(alternative, Ord(",")) IN
    IF Len(parts) < 3 THEN NoParser
    ELSE [ok |-> TRUE,
          change |-> parts[1],
          index |-> atoi(parts[2]) + (IF HasPrefix(pattern, Str(<< "." >>)) THEN 1 ELSE 0),
          cut |-> atoi(parts[3])]

\* Parse with the counter left alone (p.index-- dropped)
ParseNoDecrement(p, value) ==
  [p |-> p,
   v |-> IF value % 2 = 1
         THEN hyphDataInt(value, << p.change, Itoa(p.index), Itoa(p.cut) >>)
         ELSE PlainInt(value)]

\* AlternativeParser.Parse: the parser after the call and the value returned
Parse(p, value) ==
  LET q == [p EXCEPT !.index = p.index - 1] IN
    [p |-> q,
     v |-> IF value % 2 = 1
           THEN hyphDataInt(value, << q.change, Itoa(q.index), Itoa(q.cut) >>)
           ELSE PlainInt(value)]

(* ------------------------------------------------------------------ *)
(* NewHyphDict                                                         *)
(* ------------------------------------------------------------------ *)
ignored ==
  << Str(<< "%" >>), Str(<< "#" >>),
     Str(<< "L", "E", "F", "T", "H", "Y", "P", "H", "E", "N", "M", "I", "N" >>),
     Str(<< "R", "I", "G", "H", "T", "H", "Y", "P", "H", "E", "N", "M", "I", "N" >>),
     Str(<< "C", "O", "M", "P", "O", "U", "N", "D", "L", "E", "F", "T",
            "H", "Y", "P", "H", "E", "N", "M", "I", "N" >>),
     Str(<< "C", "O", "M", "P", "O", "U", "N", "D", "R", "I", "G", "H", "T",
            "H", "Y", "P", "H", "E", "N", "M", "I", "N" >>) >>

Cp1251Name ==
  Str(<< "m", "i", "c", "r", "o", "s", "o", "f", "t", "-", "c", "p", "1", "2", "5", "1" >>)

\* charmap.Windows1251: the code point of a byte (of 128..191 only 169, the
\* copyright sign, is tabulated; the other bytes of that range are not used)
Windows1251(b) ==
  IF b < 128 THEN b
  ELSE IF b >= 192 THEN 1040 + (b - 192)
  ELSE IF b = 169 THEN 169
  ELSE 65533

RECURSIVE DecodeCp1251(_)
DecodeCp1251(s) ==
  IF s = << >> THEN << >> ELSE EncodeRune(Windows1251(s[1])) \o DecodeCp1251(Tail(s))

\* parseHex.ReplaceAllStringFunc: every ^^hh becomes the character of code hh
RECURSIVE parseHex(_)
parseHex(s) ==
  IF Len(s) < 4 THEN s
  ELSE IF s[1] = 94 /\ s[2] = 94 /\ IsHex(s[3]) /\ IsHex(s[4])
       THEN EncodeRune(HexVal(s[3]) * 16 + HexVal(s[4])) \o parseHex(Tail0(s, 4))
       ELSE << s[1] >> \o parseHex(Tail(s))

\* parse.FindAllStringSubmatch(s, -1) for (\d?)(\D?): successive matches of
\* an optional digit and an optional non-digit character; an empty match
\* that abuts the preceding match is dropped (pos is a 0-based offset)
RECURSIVE parse(_, _, _)
parse(s, pos, prevMatchEnd) ==
  IF pos > Len(s) THEN << >>
  ELSE LET afterDigit == IF pos < Len(s) /\ IsDigit(s[pos + 1]) THEN pos + 1 ELSE pos
           matchEnd == IF afterDigit < Len(s) /\ ~IsDigit(s[afterDigit + 1])
                       THEN afterDigit + RuneWidth(s, afterDigit + 1)
                       ELSE afterDigit
           m == [digit |-> Slice(s, pos, afterDigit), tag |-> Slice(s, afterDigit, matchEnd)]
       IN IF matchEnd = pos
          THEN (IF pos = prevMatchEnd THEN << >> ELSE << m >>)
                 \o parse(s, IF pos < Len(s) THEN pos + RuneWidth(s, pos + 1) ELSE Len(s) + 1,
                          matchEnd)
          ELSE << m >> \o parse(s, matchEnd, matchEnd)

\* the loop over the matches: values = append(values, factory(val))
RECURSIVE BuildValues(_, _, _)
BuildValues(matches, useParser, ap) ==
  IF matches = << >> THEN << >>
  ELSE LET val == atoi(Head(matches).digit)
           r == IF useParser THEN Parse(ap, val) ELSE [p |-> ap, v |-> PlainInt(val)]
       IN << r.v >> \o BuildValues(Tail(matches), useParser, r.p)

RECURSIVE TrimStart(_, _)
TrimStart(values, start) ==
  IF IsInt(values[start + 1]) /\ values[start + 1].value = 0
  THEN TrimStart(values, start + 1) ELSE start

RECURSIVE TrimEnd(_, _)
TrimEnd(values, end) ==
  IF IsInt(values[end]) /\ values[end].value = 0 THEN TrimEnd(values, end - 1) ELSE end

EmptyPatterns == [key \in {} |-> [start |-> 0, values |-> << >>]]

\* the body of the loop over lines[1:], applied to the dictionary under
\* construction b = [patterns, maxlen, panic]
NewHyphDictLine(b, rawLine) ==
  LET trimmed == TrimSpace(rawLine)
      isIgnored == \E n \in 1..Len(ignored) : HasPrefix(trimmed, ignored[n])
      unescaped == parseHex(trimmed)
      hasAlt == Contains(unescaped, Ord("/")) /\ Contains(unescaped, Ord("="))
      parts == SplitN2(unescaped, Ord("/"))
      pattern == IF hasAlt THEN parts[1] ELSE unescaped
      ap == IF hasAlt THEN newAlternativeParser(pattern, parts[2]) ELSE NoParser
      matches == parse(pattern, 0, -1)
      tags == [n \in 1..Len(matches) |-> matches[n].tag]
      values == BuildValues(matches, hasAlt, ap)
      hasNonZero == \E n \in 1..Len(values) :
                      (IsInt(values[n]) /\ values[n].value > 0) \/ ~IsInt(values[n])
      start == TrimStart(values, 0)
      end == TrimEnd(values, Len(values))
      key == Join(tags)
      entry == [start |-> start, values |-> Slice(values, start, end)]
  IN IF b.panic \/ trimmed = << >> \/ isIgnored THEN b
     ELSE IF hasAlt /\ ~ap.ok THEN [b EXCEPT !.panic = TRUE]
     ELSE IF ~hasNonZero THEN b
     ELSE [patterns |-> [k \in DOMAIN b.patterns \cup {key} |->
                           IF k = key THEN entry ELSE b.patterns[k]],
           maxlen |-> IF Len(tags) > b.maxlen THEN Len(tags) ELSE b.maxlen,
           panic |-> FALSE]

RECURSIVE NewHyphDictLines(_, _)
NewHyphDictLines(b, lines) ==
  IF lines = << >> THEN b
  ELSE NewHyphDictLines(NewHyphDictLine(b, Head(lines)), Tail(lines))

NoDict == [status |-> "error", patterns |-> EmptyPatterns, maxlen |-> 0]

\* NewHyphDict on the embedded file f = [exists, data]: status "ok" with the
\* dictionary, "error" for a returned error, "panic" for a run-time panic
NewHyphDict(f) ==
  LET lines == Split(f.data, 10)
      encoding == ToLower(TrimSpace(lines[1]))
      decoded == IF encoding = Cp1251Name
                 THEN [n \in 1..Len(lines) |->
                         IF n = 1 THEN lines[1] ELSE DecodeCp1251(lines[n])]
                 ELSE lines
      b == NewHyphDictLines([patterns |-> EmptyPatterns, maxlen |-> 0, panic |-> FALSE],
                            Tail(decoded))
  IN IF ~f.exists \/ Len(lines) < 2 THEN NoDict
     ELSE IF b.panic THEN [NoDict EXCEPT !.status = "panic"]
     ELSE [status |-> "ok", patterns |-> b.patterns, maxlen |-> b.maxlen]

(* ------------------------------------------------------------------ *)
(* HyphDict.Positions                                                  *)
(* ------------------------------------------------------------------ *)
byteIndex(s, runeIndex) == Len(s) - Len(Tail0(s, runeIndex))

\* the scan windows: 0 <= i < L-1 and i < j < min(i+maxlen, L) + 1
Windows(L, maxlen) ==
  { w \in (0..L) \X (0..L) :
      w[1] < L - 1 /\ w[1] < w[2] /\ w[2] < Min2(w[1] + maxlen, L) + 1 }

\* subWord for every window of the pointed word
SubWords(pointedWord, maxlen) ==
  [w \in Windows(RuneCountInString(pointedWord), maxlen) |->
     Slice(pointedWord, byteIndex(pointedWord, w[1]), byteIndex(pointedWord, w[2]))]

\* an accumulator slot that was never written (a nil interface value)
Nil == PlainInt(0)

\* the merge with the weights added up instead of the larger one kept
RECURSIVE MergeValuesSum(_, _, _, _)
MergeValuesSum(refs, i, pattern, k) ==
  IF refs.panic \/ k >= Len(pattern.values) THEN refs
  ELSE LET idx == i + pattern.start + k
           v == pattern.values[k + 1]
       IN IF idx \notin DOMAIN refs.slots THEN [refs EXCEPT !.panic = TRUE]
          ELSE MergeValuesSum(IF v.value > 0
                              THEN [refs EXCEPT !.slots[idx] =
                                      hyphDataInt(v.value + refs.slots[idx].value, v.data)]
                              ELSE refs,
                              i, pattern, k + 1)

\* the loop over the values of one pattern found at window start i;
\* refs = [panic, slots], panic when idx is outside references
RECURSIVE MergeValues(_, _, _, _)
MergeValues(refs, i, pattern, k) ==
  IF refs.panic \/ k >= Len(pattern.values) THEN refs
  ELSE LET idx == i + pattern.start + k
           v == pattern.values[k + 1]
       IN IF idx \notin DOMAIN refs.slots THEN [refs EXCEPT !.panic = TRUE]
          ELSE MergeValues(IF v.value > refs.slots[idx].value
                           THEN [refs EXCEPT !.slots[idx] = v]
                           ELSE refs,
                           i, pattern, k + 1)

RECURSIVE ScanJ(_, _, _, _, _, _)
ScanJ(patterns, subs, stop, refs, i, j) ==
  IF refs.panic \/ j >= stop THEN refs
  ELSE ScanJ(patterns, subs, stop,
             IF subs[<< i, j >>] \in DOMAIN patterns
             THEN MergeValues(refs, i, patterns[subs[<< i, j >>]], 0)
             ELSE refs,
             i, j + 1)

RECURSIVE ScanI(_, _, _, _, _, _)
ScanI(patterns, maxlen, subs, L, refs, i) ==
  IF refs.panic \/ i >= L - 1 THEN refs
  ELSE ScanI(patterns, maxlen, subs, L,
             ScanJ(patterns, subs, Min2(i + maxlen, L) + 1, refs, i, i + 1),
             i + 1)

\* the accumulator after the scan of a word of L characters (markers
\* included) whose windows hold the substrings subs
Scan(patterns, maxlen, subs, L) ==
  ScanI(patterns, maxlen, subs, L, [panic |-> FALSE, slots |-> [g \in 0..L |-> Nil]], 0)

\* the collection with the slot index taken as the offset (i instead of i - 1)
RECURSIVE PointsSlotIndex(_, _)
PointsSlotIndex(slots, g) ==
  IF g \notin DOMAIN slots THEN << >>
  ELSE (IF slots[g].value % 2 # 0 THEN << hyphDataInt(g, slots[g].data) >> ELSE << >>)
         \o PointsSlotIndex(slots, g + 1)

\* the loop that collects the odd slots, in slot order
RECURSIVE Points(_, _)
Points(slots, g) ==
  IF g \notin DOMAIN slots THEN << >>
  ELSE (IF slots[g].value % 2 # 0 THEN << hyphDataInt(g - 1, slots[g].data) >> ELSE << >>)
         \o Points(slots, g + 1)

\* the uncached part of Positions for a lowercased word
Compute(patterns, maxlen, word) ==
  LET pointedWord == Str(<< "." >>) \o word \o Str(<< "." >>)
      refs == Scan(patterns, maxlen, SubWords(pointedWord, maxlen),
                   RuneCountInString(pointedWord))
  IN [panic |-> refs.panic,
      refs |-> refs.slots,
      points |-> IF refs.panic THEN << >> ELSE Points(refs.slots, 0)]

\* Positions with the cache keyed by the word as given (ToLower applied to
\* the scan only)
PositionsKeyedByWord(d, c, word) ==
  LET r == Compute(d.patterns, d.maxlen, ToLower(word))
  IN IF word \in DOMAIN c
     THEN [status |-> "ok", served |-> "cache", word |-> word, points |-> c[word],
           refs |-> << >>, cache |-> c]
     ELSE IF r.panic
     THEN [status |-> "panic", served |-> "scan", word |-> word, points |-> << >>,
           refs |-> << >>, cache |-> c]
     ELSE [status |-> "ok", served |-> "scan", word |-> word, points |-> r.points,
           refs |-> r.refs,
           cache |-> [k \in DOMAIN c \cup {word} |-> IF k = word THEN r.points ELSE c[k]]]

\* Positions(word) on the dictionary d with the cache c: the outcome, the
\* points returned, the accumulator of the scan and the cache afterwards
Positions(d, c, word) ==
  LET lword == ToLower(word)
      r == Compute(d.patterns, d.maxlen, lword)
  IN IF lword \in DOMAIN c
     THEN [status |-> "ok", served |-> "cache", word |-> word, points |-> c[lword],
           refs |-> << >>, cache |-> c]
     ELSE IF r.panic
     THEN [status |-> "panic", served |-> "scan", word |-> word, points |-> << >>,
           refs |-> << >>, cache |-> c]
     ELSE [status |-> "ok", served |-> "scan", word |-> word, points |-> r.points,
           refs |-> r.refs,
           cache |-> [k \in DOMAIN c \cup {lword} |-> IF k = lword THEN r.points ELSE c[k]]]

(* ------------------------------------------------------------------ *)
(* Inputs                                                              *)
(* ------------------------------------------------------------------ *)
\* pattern lines of dictionary files
LinePool ==
  { Str(<< ".", "h", "i", "1" >>),
    Str(<< "1", "i", "t", "." >>),
    Str(<< "a", "1" >>),
    Str(<< "1", ".", "a" >>),
    Str(<< "2", "b" >>),
    Str(<< "b", "1", "2", "3" >>),
    Str(<< "a", "1", "b", "/", "f", "=", "f", ",", "1", ",", "2" >>),
    Str(<< ".", "a", "3", "b", "/", "f", "=", "f", ",", "1", ",", "2" >>),
    Str(<< "1", "b", "/", "f", "=", "f", ",", "1", ",", "2" >>),
    Str(<< "a", "1", "b", "/", "f", "=", "f" >>) }

Utf8Name == Str(<< "U", "T", "F", "-", "8" >>)

HeaderPool == { Utf8Name, Cp1251Name }

RECURSIVE SeqsUpTo(_, _)
SeqsUpTo(S, n) ==
  IF n = 0 THEN { << >> }
  ELSE LET shorter == SeqsUpTo(S, n - 1) IN
         shorter \cup { Append(ls, x) : ls \in shorter, x \in S }

\* files with a comment, a blank line, a pattern of zero weights, a hex
\* escape, a clause with a non-numeric index, and a two-byte letter
ExtraFiles ==
  { JoinLines(<< Utf8Name, Str(<< "%", "a", "1" >>), << >>, Str(<< " ", "a", "0", "b", " " >>),
                 Str(<< "^", "^", "e", "9", "1", "a" >>) >>),
    JoinLines(<< Utf8Name, Str(<< "a", "1", "b", "/", "f", "=", "f", ",", "x", ",", "2" >>),
                 Str(<< "#", "a", "1" >>), Str(<< "a", "b" >>) >>),
    JoinLines(<< Str(<< " ", "M", "i", "c", "r", "o", "s", "o", "f", "t", "-",
                        "C", "P", "1", "2", "5", "1" >>),
                 Str(<< "C3", "1", "a" >>) >>) }

\* the embedded files: a missing file, a file of one line without a line
\* break, a header line followed by up to MaxLines pattern lines, and the
\* extra files
FilePool ==
  { [exists |-> FALSE, data |-> << >>],
    [exists |-> TRUE, data |-> Utf8Name] }
  \cup { [exists |-> TRUE, data |-> JoinLines(<< h >> \o ls)] :
           h \in HeaderPool, ls \in SeqsUpTo(LinePool, MaxLines) }
  \cup { [exists |-> TRUE, data |-> d] : d \in ExtraFiles }

\* the words callers ask for
WordPool ==
  { << >>,
    Str(<< "a", "b" >>),
    Str(<< "A", "b" >>),
    Str(<< "h", "i", "t" >>),
    Str(<< "C3", "A9", "a" >>) }

\* the words concurrent callers ask for
ConcWordPool == { Str(<< "a", "b" >>), Str(<< "A", "b" >>) }

Callers == { 1, 2 }

(* ------------------------------------------------------------------ *)
(* State                                                               *)
(* ------------------------------------------------------------------ *)
VARIABLES
  file,     \* the embedded dictionary file NewHyphDict is called on
  loaded,   \* "no" before NewHyphDict, then its outcome: "ok", "error", "panic"
  hd,       \* the HyphDict: [patterns, maxlen]
  cache,    \* hd.cache
  last,     \* the latest sequential call of Positions:
            \* [status, served, word, points, refs]
  pc,       \* where each concurrent caller is inside Positions
  cword,    \* its local variable word (lowercased)
  cpoints,  \* its local variable points
  cret,     \* what its call returned
  fatal     \* the Go runtime stopped the program on a concurrent map access

vars == << file, loaded, hd, cache, last, pc, cword, cpoints, cret, fatal >>
concVars == << pc, cword, cpoints, cret, fatal >>

NoCall == [status |-> "none", served |-> "none", word |-> << >>, points |-> << >>,
           refs |-> << >>]

EmptyCache == [k \in {} |-> << >>]

Init ==
  /\ file \in FilePool
  /\ loaded = "no"
  /\ hd = [patterns |-> EmptyPatterns, maxlen |-> 0]
  /\ cache = EmptyCache
  /\ last = NoCall
  /\ pc = [c \in Callers |-> "idle"]
  /\ cword = [c \in Callers |-> << >>]
  /\ cpoints = [c \in Callers |-> << >>]
  /\ cret = [c \in Callers |-> << >>]
  /\ fatal = FALSE

\* hd, err := NewHyphDict(path)
Load ==
  /\ loaded = "no"
  /\ LET r == NewHyphDict(file) IN
       /\ loaded' = r.status
       /\ hd' = [patterns |-> r.patterns, maxlen |-> r.maxlen]
  /\ UNCHANGED << file, cache, last >>
  /\ UNCHANGED concVars

\* hd.Positions(word), one caller at a time
Call(word) ==
  /\ loaded = "ok"
  /\ LET r == Positions(hd, cache, word) IN
       /\ cache' = r.cache
       /\ last' = [status |-> r.status, served |-> r.served, word |-> r.word,
                   points |-> r.points, refs |-> r.refs]
  /\ UNCHANGED << file, loaded, hd >>
  /\ UNCHANGED concVars

Next ==
  \/ Load
  \/ \E word \in WordPool : Call(word)

Spec == Init /\ [][Next]_vars

(* ------------------------------------------------------------------ *)
(* Positions called by several goroutines on one HyphDict              *)
(* ------------------------------------------------------------------ *)
\* another caller is writing the cache map
OtherStoring(c) == \E d \in Callers \ {c} : pc[d] = "store"
\* another caller is reading or writing the cache map
OtherAccessing(c) == \E d \in Callers \ {c} : pc[d] \in {"lookup", "store"}

\* word = strings.ToLower(word), and the map read hd.cache[word] begins
Begin(c, word) ==
  /\ loaded = "ok" /\ ~fatal /\ pc[c] = "idle"
  /\ pc' = [pc EXCEPT ![c] = "lookup"]
  /\ cword' = [cword EXCEPT ![c] = ToLower(word)]
  /\ UNCHANGED << file, loaded, hd, cache, last, cpoints, cret, fatal >>

\* the map read ends with the entry found: return points
LookupHit(c) ==
  /\ ~fatal /\ pc[c] = "lookup"
  /\ \E points \in
        { cache[k] : k \in DOMAIN cache \cap {cword[c]} }
        \cup { cpoints[d] : d \in { e \in Callers \ {c} :
                                      pc[e] = "store" /\ cword[e] = cword[c] } } :
       cret' = [cret EXCEPT ![c] = points]
  /\ pc' = [pc EXCEPT ![c] = "done"]
  /\ UNCHANGED << file, loaded, hd, cache, last, cword, cpoints, fatal >>

\* the map read ends without an entry: go on to the scan
LookupMiss(c) ==
  /\ ~fatal /\ pc[c] = "lookup"
  /\ cword[c] \notin DOMAIN cache
  /\ pc' = [pc EXCEPT ![c] = "scan"]
  /\ UNCHANGED << file, loaded, hd, cache, last, cword, cpoints, cret, fatal >>

\* the scan and the collection of points; then the map write begins
ScanStep(c) ==
  /\ ~fatal /\ pc[c] = "scan"
  /\ LET r == Compute(hd.patterns, hd.maxlen, cword[c]) IN
       /\ pc' = [pc EXCEPT ![c] = IF r.panic THEN "panic" ELSE "store"]
       /\ cpoints' = [cpoints EXCEPT ![c] = r.points]
  /\ UNCHANGED << file, loaded, hd, cache, last, cword, cret, fatal >>

\* the map write hd.cache[word] = points ends; return points
StoreEnd(c) ==
  /\ ~fatal /\ pc[c] = "store"
  /\ cache' = [k \in DOMAIN cache \cup {cword[c]} |->
                 IF k = cword[c] THEN cpoints[c] ELSE cache[k]]
  /\ cret' = [cret EXCEPT ![c] = cpoints[c]]
  /\ pc' = [pc EXCEPT ![c] = "done"]
  /\ UNCHANGED << file, loaded, hd, last, cword, cpoints, fatal >>

\* the runtime detects a map access concurrent with a map write and stops
\* the program ("fatal error: concurrent map writes")
Throw(c) ==
  /\ ~fatal
  /\ \/ pc[c] = "lookup" /\ OtherStoring(c)
     \/ pc[c] = "store" /\ OtherAccessing(c)
  /\ fatal' = TRUE
  /\ UNCHANGED << file, loaded, hd, cache, last, pc, cword, cpoints, cret >>

\* the caller takes the result and may call again
Return(c) ==
  /\ ~fatal /\ pc[c] = "done"
  /\ pc' = [pc EXCEPT ![c] = "idle"]
  /\ cword' = [cword EXCEPT ![c] = << >>]
  /\ cpoints' = [cpoints EXCEPT ![c] = << >>]
  /\ cret' = [cret EXCEPT ![c] = << >>]
  /\ UNCHANGED << file, loaded, hd, cache, last, fatal >>

NextConc ==
  \/ Load
  \/ \E c \in Callers, word \in ConcWordPool : Begin(c, word)
  \/ \E c \in Callers : LookupHit(c)
  \/ \E c \in Callers : LookupMiss(c)
  \/ \E c \in Callers : ScanStep(c)
  \/ \E c \in Callers : StoreEnd(c)
  \/ \E c \in Callers : Throw(c)
  \/ \E c \in Callers : Return(c)

SpecConc == Init /\ [][NextConc]_vars

(* ------------------------------------------------------------------ *)
(* Properties                                                          *)
(* ------------------------------------------------------------------ *)
\* the latest sequential call: its lowercased word, the word between the
\* boundary markers, and L
LastLower == ToLower(last.word)
LastPointed == Str(<< "." >>) \o LastLower \o Str(<< "." >>)
LastL == RuneCountInString(LastPointed)
\* the latest call returned and ran the scan
Scanned == last.status = "ok" /\ last.served = "scan"
Offsets(points) == [n \in 1..Len(points) |-> points[n].value]

\* C1: every Break Point that Positions(w) returns has an offset with
\* 0 <= offset < length(w), the length counted in characters.
OffsetsInsideWord ==
  last.status = "ok" =>
    \A n \in 1..Len(last.points) :
      /\ 0 <= last.points[n].value
      /\ last.points[n].value < RuneCountInString(last.word)

\* the windows of the latest scan whose substring is a dictionary key
FoundWindows ==
  LET subs == SubWords(LastPointed, hd.maxlen) IN
    { w \in DOMAIN subs : subs[w] \in DOMAIN hd.patterns }

\* the entry found at a window
EntryAt(w) == hd.patterns[SubWords(LastPointed, hd.maxlen)[w]]

\* the contributions << window, k >> of the found patterns at slot g
Contributions(g) ==
  UNION { { << w, k >> : k \in { k \in 1..Len(EntryAt(w).values) :
                                   w[1] + EntryAt(w).start + k - 1 = g } } :
          w \in FoundWindows }

WeightOf(c) == EntryAt(c[1]).values[c[2]]

\* the first of a set of contributions in scan order: i, then j
FirstOf(cs) ==
  CHOOSE c \in cs : \A d \in cs :
    \/ c[1][1] < d[1][1]
    \/ c[1][1] = d[1][1] /\ c[1][2] <= d[1][2]

\* C2: after the scan every accumulator slot holds the maximum of the
\* weights contributed at it (0 when there is none), never their sum, with
\* the exception data of the first contribution in scan order that reaches
\* that maximum.
MaxMerge ==
  Scanned =>
    \A g \in 0..LastL :
      LET cs == Contributions(g)
          top == Max({0} \cup { WeightOf(c).value : c \in cs })
          tops == { c \in cs : WeightOf(c).value = top }
      IN /\ last.refs[g].value = top
         /\ last.refs[g].data = IF top = 0 THEN << >> ELSE WeightOf(FirstOf(tops)).data

\* a scan in which one slot got a contribution of weight 1 and one of weight 2
MaxMergeWitness ==
  /\ Scanned
  /\ \E g \in 0..LastL : \E c, d \in Contributions(g) :
       WeightOf(c).value = 1 /\ WeightOf(d).value = 2

\* a scan in which one slot got two contributions of the same weight with
\* different exception data
MaxMergeTie ==
  /\ Scanned
  /\ \E g \in 0..LastL : \E c, d \in Contributions(g) :
       /\ WeightOf(c).value = WeightOf(d).value
       /\ WeightOf(c).data # WeightOf(d).data

HiLine == Str(<< ".", "h", "i", "1" >>)
ItLine == Str(<< "1", "i", "t", "." >>)
\* the file holds only the patterns .hi1 and 1it.
HitDictionary ==
  \E h \in HeaderPool, ls \in { << HiLine, ItLine >>, << ItLine, HiLine >> } :
    file.data = JoinLines(<< h >> \o ls)

\* C3: Positions(w) returns exactly one Break Point for every odd
\* accumulator slot, at offset slot index - 1 and with the slot's exception
\* data, none for an even or unset slot, in strictly ascending offset
\* order; with only .hi1 and 1it. the word "hit" breaks at offsets 1 and 2.
BreakPointsAreOddSlots ==
  Scanned =>
    /\ \A g \in 0..LastL :
         LET at == { n \in 1..Len(last.points) : last.points[n].value = g - 1 } IN
           IF last.refs[g].value % 2 = 1
           THEN /\ Cardinality(at) = 1
                /\ \A n \in at : last.points[n].data = last.refs[g].data
           ELSE at = {}
    /\ \A n \in 1..Len(last.points) : last.points[n].value + 1 \in 0..LastL
    /\ \A n \in 1..Len(last.points) : \A m \in 1..Len(last.points) :
         n < m => last.points[n].value < last.points[m].value
    /\ (HitDictionary /\ LastLower = Str(<< "h", "i", "t" >>))
         => Offsets(last.points) = << 1, 2 >>

\* "hit" was scanned with the dictionary of .hi1 and 1it.
BreakPointsWitness ==
  /\ Scanned /\ HitDictionary
  /\ LastLower = Str(<< "h", "i", "t" >>)
  /\ Len(last.points) = 2

\* the byte offset of character r of s (p: 1-based position of the
\* character the count has reached)
RECURSIVE RuneOffset(_, _, _)
RuneOffset(s, r, p) ==
  IF r = 0 THEN p - 1 ELSE RuneOffset(s, r - 1, p + RuneWidth(s, p))

\* characters i..j-1 of s
CharSlice(s, i, j) == Slice(s, RuneOffset(s, i, 1), RuneOffset(s, j, 1))

\* C4: every substring looked up is characters i..j-1 of the pointed word,
\* and the breaks are those of the scan over the characters.
IndexedByCharacter ==
  last.status # "none" =>
    LET chars == [w \in Windows(LastL, hd.maxlen) |->
                    CharSlice(LastPointed, w[1], w[2])]
        byChars == Scan(hd.patterns, hd.maxlen, chars, LastL)
    IN /\ SubWords(LastPointed, hd.maxlen) = chars
       /\ (last.status = "ok" /\ ~byChars.panic)
            => last.points = Points(byChars.slots, 0)

\* C5: no two callers access the cache map at once with one of them
\* writing it; callers that finish return the sequence of the scan.
CacheAccessExclusive ==
  /\ \A c \in Callers : \A d \in Callers \ {c} :
       ~(pc[c] = "store" /\ pc[d] \in {"lookup", "store"})
  /\ ~fatal
  /\ \A c \in Callers :
       pc[c] = "done" => cret[c] = Compute(hd.patterns, hd.maxlen, cword[c]).points

\* every cache entry is keyed by a lowercased word and holds the sequence
\* of the scan; a returned sequence is the sequence of the scan
MemoInv ==
  /\ \A k \in DOMAIN cache :
       /\ ToLower(k) = k
       /\ ~Compute(hd.patterns, hd.maxlen, k).panic
       /\ cache[k] = Compute(hd.patterns, hd.maxlen, k).points
  /\ last.status = "ok" =>
       last.points = Compute(hd.patterns, hd.maxlen, LastLower).points

\* a call keeps every cache entry, the pattern table and maxlen, and a
\* call for a cached word returns the stored sequence
MemoStep ==
  loaded = "ok" =>
    /\ hd' = hd
    /\ \A k \in DOMAIN cache : k \in DOMAIN cache' /\ cache'[k] = cache[k]
    /\ (last'.status = "ok" /\ ToLower(last'.word) \in DOMAIN cache)
         => last'.points = cache[ToLower(last'.word)]

\* C6: after any sequence of Positions calls every cache entry is keyed by
\* a lowercased word and holds what the uncached scan computes for it, no
\* entry is ever changed or evicted, every call returns the scan's sequence
\* whether served by the scan or by the cache, and no call changes the
\* pattern table or maxlen.
Memoization == []MemoInv /\ [][MemoStep]_vars

\* a call with an uppercase letter was served by the cache with a break
MemoizationWitness ==
  /\ last.status = "ok" /\ last.served = "cache"
  /\ last.word # LastLower
  /\ last.points # << >>

\* C7: no call of Positions ends in an out-of-range accumulator index.
PositionsNeverFails == last.status # "panic"

\* C8: a file that can be read and has a header and content always yields
\* a dictionary, whatever its exception clauses look like.
MalformedClauseNotFatal ==
  (loaded # "no" /\ file.exists /\ Len(Split(file.data, 10)) >= 2) => loaded = "ok"

\* the pattern lines of the file
FileLines == Tail(Split(file.data, 10))
HasClause(l) == Contains(l, Ord("/")) /\ Contains(l, Ord("="))
TheClause == Str(<< "f", "=", "f", ",", "1", ",", "2" >>)
ClauseLines ==
  { FileLines[n] : n \in { m \in 1..Len(FileLines) : HasClause(FileLines[m]) } }
\* every exception clause of the file is f=f,1,2
OnlyTheClause == \A l \in ClauseLines : SplitN2(l, Ord("/"))[2] = TheClause
BaseOf(l) == SplitN2(l, Ord("/"))[1]
DotBonus(l) == IF HasPrefix(l, Str(<< "." >>)) THEN 1 ELSE 0
KeyOf(l) == LET ms == parse(BaseOf(l), 0, -1) IN Join([n \in 1..Len(ms) |-> ms[n].tag])

\* clause line l, found at a window that starts at i, puts its m-th weight,
\* an odd one, on slot g
PutsOddWeight(l, m, g) ==
  /\ m \in 1..Len(parse(BaseOf(l), 0, -1))
  /\ atoi(parse(BaseOf(l), 0, -1)[m].digit) % 2 = 1
  /\ \E w \in FoundWindows :
       /\ SubWords(LastPointed, hd.maxlen)[w] = KeyOf(l)
       /\ w[1] + m - 1 = g

\* C9 as stated: a Break Point from a pattern with clause /f=f,1,2 carries
\* (change "f", index 1, or 2 when the pattern starts with ".", cut 2),
\* wherever the odd weight stands in the pattern.
ExceptionTupleAsStated ==
  (last.status = "ok" /\ OnlyTheClause) =>
    \A n \in 1..Len(last.points) :
      last.points[n].data # << >> =>
        \E l \in ClauseLines :
          last.points[n].data = << Str(<< "f" >>), Itoa(1 + DotBonus(l)), Itoa(2) >>

\* C9 amended: a Break Point from a pattern with clause /f=f,1,2 carries
\* (change "f=f", index 1, plus 1 when the pattern starts with ".", minus
\* the number of weights read up to and including the odd one, cut 2).
ExceptionTuple ==
  (last.status = "ok" /\ OnlyTheClause) =>
    \A n \in 1..Len(last.points) :
      last.points[n].data # << >> =>
        \E l \in ClauseLines : \E m \in 1..Len(l) :
          /\ PutsOddWeight(l, m, last.points[n].value + 1)
          /\ last.points[n].data =
               << Str(<< "f", "=", "f" >>), Itoa(1 + DotBonus(l) - m), Itoa(2) >>

\* a Break Point with exception data from a pattern that starts with "."
ExceptionTupleWitness ==
  /\ last.status = "ok" /\ OnlyTheClause
  /\ \E n \in 1..Len(last.points) : \E l \in ClauseLines :
       /\ last.points[n].data # << >>
       /\ DotBonus(l) = 1
       /\ PutsOddWeight(l, 3, last.points[n].value + 1)

\* C10: maxlen is the largest number of letters of a stored key, 0 when
\* nothing is stored.
MaxlenIsLongestKey ==
  loaded = "ok" =>
    hd.maxlen = Max({0} \cup { RuneCountInString(k) : k \in DOMAIN hd.patterns })

====
